---- MODULE Spec2Model ----
(***************************************************************************)
(* A model of src/base_topo.py: the node/edge store (Graph, Node, Edge),   *)
(* the two shortest-path solvers, Yen's k-shortest-path engine and the two *)
(* parallel drivers built on them.                                         *)
(*                                                                         *)
(* A Node object is identified by its position (1-based) in Graph.nodes;   *)
(* Node.edges is the sequence of the rnode positions of its Edge objects   *)
(* (Node.add_edge always sets lnode = self, so lnode is the owner).        *)
(***************************************************************************)
EXTENDS Integers, Sequences, FiniteSets, TLC

VARIABLES
    graph,      \* the Graph instance `self`: nodes, node_names, node edges, edges, matrix, observers' log
    copies,     \* copy.deepcopy(self) handed to each unit of the permutation pipeline
    outcome,    \* what the last call returned or raised
    calls,      \* number of store calls made (bounds the store specification)
    yen,        \* the frames of the running compute_yen_ksp calls
    query,      \* the (src, dst) of a solver query and the two solvers' answers
    memo,       \* computed_paths of compute_dijikstra_for_all_hosts (the Manager dict)
    units       \* the frames of the processInput units of the parallel drivers

vars == <<graph, copies, outcome, calls, yen, query, memo, units>>

-----------------------------------------------------------------------------
(* Bounds of the model and constants of the program *)

\* sys.maxsize stands for "no path"; Python's integers do not overflow, so
\* the model only needs a value above every real path length whose double
\* still fits TLC's integers.
MaxSize == 1000000000

MaxCalls == 4
MaxEdges == 3
MaxK == 4

NodeIds == {"h1", "h2", "s1"}
NodeTypes == {"host", "switch"}

Range(s) == {s[i] : i \in DOMAIN s}

SeqsUpTo(S, n) == UNION {[1..m -> S] : m \in 0..n}

-----------------------------------------------------------------------------
(* The store: Graph.__init__, add_node, add_edge, remove_edge *)

\* Graph.__init__
NewGraph ==
    [nodes      |-> <<>>,
     node_names |-> <<>>,
     node_edges |-> <<>>,
     edges      |-> <<>>,
     adjacency_matrix |-> [built |-> FALSE, m |-> <<>>],
     observed   |-> <<>>]

\* list.index: the first position holding x (0 when absent, where Python raises ValueError)
IndexOf(s, x) ==
    IF x \in Range(s) THEN CHOOSE i \in DOMAIN s : s[i] = x /\ \A j \in 1..(i-1) : s[j] # x
    ELSE 0

NodeId(g, n) == g.nodes[n].id

\* add_node without its membership test
AddNodeUnchecked(g, n, t) ==
    [g EXCEPT !.nodes = Append(@, [id |-> n, type |-> t]),
              !.node_names = Append(@, n),
              !.node_edges = Append(@, <<>>),
              !.observed = Append(@, <<"add_node", n>>)]

\* Graph.add_node: the store after the call (unchanged when it raises)
AddNodeGraph(g, n, t) ==
    IF n \in Range(g.node_names) THEN g ELSE AddNodeUnchecked(g, n, t)

AddNodeRaises(g, n) == n \in Range(g.node_names)

\* Graph.add_edge on resolved ids: one Edge on each endpoint, the first in Graph.edges
AddEdgeGraph(g, n1, n2) ==
    LET a == IndexOf(g.node_names, n1)
        b == IndexOf(g.node_names, n2)
        e1 == [g.node_edges EXCEPT ![a] = Append(@, b)]
        e2 == [e1 EXCEPT ![b] = Append(@, a)]
    IN [g EXCEPT !.node_edges = e2,
                 !.edges = Append(@, <<a, b>>),
                 !.observed = Append(@, <<"add_edge", n1, n2>>)]

AddEdgeRaises(g, n1, n2) == n1 \notin Range(g.node_names) \/ n2 \notin Range(g.node_names)

\* add_edge telling the observers before the second id is resolved
AddEdgeToldEarly(g, n1, n2) ==
    IF AddEdgeRaises(g, n1, n2)
    THEN IF n1 \in Range(g.node_names) THEN [g EXCEPT !.observed = Append(@, <<"add_edge", n1, n2>>)] ELSE g
    ELSE AddEdgeGraph(g, n1, n2)

\* Graph.add_edge: the store after the call; list.index raises ValueError for
\* an id that is not in node_names, before anything is changed
AddEdgeCall(g, n1, n2) ==
    IF AddEdgeRaises(g, n1, n2) THEN g ELSE AddEdgeGraph(g, n1, n2)

\* remove_edge detaching the reverse edge of t as well
RemoveEdgeBothLists(ids, lists, n, t) ==
    LET cut(l, x) == LET hit == {i \in DOMAIN l : ids[l[i]] = ids[x]}
                     IN IF hit = {} THEN l
                        ELSE LET i == CHOOSE j \in hit : \A k \in hit : j <= k
                             IN SubSeq(l, 1, i-1) \o SubSeq(l, i+1, Len(l))
    IN [m \in DOMAIN lists |-> IF m = n THEN cut(lists[m], t)
                               ELSE IF m = t THEN cut(lists[m], n) ELSE lists[m]]

\* the loop of Graph.remove_edge over n.edges and Node.remove_edge: the edges of
\* every node after the first edge of n whose rnode has t's id is detached
RemoveEdgeLists(ids, lists, n, t) ==
    LET hit == {i \in DOMAIN lists[n] : ids[lists[n][i]] = ids[t]}
    IN IF hit = {} THEN lists
       ELSE LET i == CHOOSE j \in hit : \A k \in hit : j <= k
            IN [lists EXCEPT ![n] = SubSeq(@, 1, i-1) \o SubSeq(@, i+1, Len(@))]

\* Graph.remove_edge(n, t) with n and t nodes of g itself
RemoveEdgeGraph(g, n, t) ==
    [g EXCEPT !.node_edges = RemoveEdgeLists(g.node_names, g.node_edges, n, t),
              !.observed = Append(@, <<"remove_edge", NodeId(g, n), NodeId(g, t)>>)]

\* Node.is_neighbor: some edge of a has b as lnode (a itself) or as rnode
IsNeighbor(g, a, b) ==
    \E i \in DOMAIN g.node_edges[a] : a = b \/ g.node_edges[a][i] = b

\* float('inf') in the adjacency matrix
FloatInf == -1

\* generate_adjancency_matrix without its cache test
AdjacencyMatrixRebuilt(g) ==
    [i \in DOMAIN g.nodes |-> [j \in DOMAIN g.nodes |->
        IF IsNeighbor(g, i, j) THEN 1 ELSE FloatInf]]

\* Graph.generate_adjancency_matrix: the matrix returned
AdjacencyMatrix(g) ==
    IF g.adjacency_matrix.built THEN g.adjacency_matrix.m
    ELSE [i \in DOMAIN g.nodes |-> [j \in DOMAIN g.nodes |->
              IF IsNeighbor(g, i, j) THEN 1 ELSE FloatInf]]

\* Graph.generate_adjancency_matrix: the store after the call
GenerateMatrixGraph(g) ==
    [g EXCEPT !.adjacency_matrix = [built |-> TRUE, m |-> AdjacencyMatrix(g)]]

-----------------------------------------------------------------------------
(* Store calls as actions *)

Idle == [op |-> "none", args |-> <<>>, status |-> "ok"]

Unused ==
    /\ copies = <<>>
    /\ yen = <<>>
    /\ query = <<>>
    /\ memo = <<>>
    /\ units = <<>>

InitStore ==
    /\ graph = NewGraph
    /\ outcome = Idle
    /\ calls = 0
    /\ Unused

add_node(n, t) ==
    /\ calls < MaxCalls
    /\ graph' = AddNodeGraph(graph, n, t)
    /\ outcome' = [op |-> "add_node", args |-> <<n, t>>,
                   status |-> IF AddNodeRaises(graph, n) THEN "DuplicateNodeNameException" ELSE "ok"]
    /\ calls' = calls + 1
    /\ UNCHANGED <<copies, yen, query, memo, units>>

add_edge(n1, n2) ==
    /\ calls < MaxCalls
    /\ graph' = AddEdgeCall(graph, n1, n2)
    /\ outcome' = [op |-> "add_edge", args |-> <<n1, n2>>,
                   status |-> IF AddEdgeRaises(graph, n1, n2) THEN "ValueError" ELSE "ok"]
    /\ calls' = calls + 1
    /\ UNCHANGED <<copies, yen, query, memo, units>>

remove_edge(n, t) ==
    /\ calls < MaxCalls
    /\ graph' = RemoveEdgeGraph(graph, n, t)
    /\ outcome' = [op |-> "remove_edge", args |-> <<n, t>>, status |-> "ok"]
    /\ calls' = calls + 1
    /\ UNCHANGED <<copies, yen, query, memo, units>>

generate_adjancency_matrix ==
    /\ calls < MaxCalls
    /\ graph' = GenerateMatrixGraph(graph)
    /\ outcome' = [op |-> "generate_adjancency_matrix", args |-> <<>>, status |-> "ok",
                   value |-> AdjacencyMatrix(graph)]
    /\ calls' = calls + 1
    /\ UNCHANGED <<copies, yen, query, memo, units>>

NextStore ==
    \/ \E n \in NodeIds, t \in NodeTypes : add_node(n, t)
    \/ \E n1 \in NodeIds, n2 \in NodeIds : add_edge(n1, n2)
    \/ \E n \in DOMAIN graph.nodes, t \in DOMAIN graph.nodes : remove_edge(n, t)
    \/ generate_adjancency_matrix

SpecStore == InitStore /\ [][NextStore]_vars

-----------------------------------------------------------------------------
(* heapq on (distance, node) tuples.  Node.__lt__ returns self, which is    *)
(* truthy, so between two entries of equal distance and different nodes     *)
(* "less than" always answers yes.                                          *)

HeapLt(x, y) == x[1] < y[1] \/ (x[1] = y[1] /\ x[2] # y[2])

HeapParent(pos) == ((pos - 2) \div 2) + 1

\* heapq._siftdown
RECURSIVE SiftDown(_, _, _, _)
SiftDown(heap, startpos, pos, newitem) ==
    IF pos > startpos /\ HeapLt(newitem, heap[HeapParent(pos)])
    THEN SiftDown([heap EXCEPT ![pos] = heap[HeapParent(pos)]], startpos, HeapParent(pos), newitem)
    ELSE [heap EXCEPT ![pos] = newitem]

\* heapq.heappush
HeapPush(heap, item) == SiftDown(Append(heap, item), 1, Len(heap) + 1, item)

\* heapq._siftup: the smaller child moves up until a leaf is reached, then _siftdown
RECURSIVE SiftUp(_, _, _)
SiftUp(heap, pos, newitem) ==
    IF 2 * pos <= Len(heap)
    THEN LET c == IF 2 * pos + 1 <= Len(heap) /\ ~HeapLt(heap[2 * pos], heap[2 * pos + 1])
                  THEN 2 * pos + 1 ELSE 2 * pos
         IN SiftUp([heap EXCEPT ![pos] = heap[c]], c, newitem)
    ELSE SiftDown([heap EXCEPT ![pos] = newitem], 1, pos, newitem)

\* heapq.heappop: the item returned and the heap left
HeapPop(heap) ==
    LET last == heap[Len(heap)]
        rest == SubSeq(heap, 1, Len(heap) - 1)
    IN IF rest = <<>> THEN [item |-> last, heap |-> <<>>]
       ELSE [item |-> rest[1], heap |-> SiftUp([rest EXCEPT ![1] = last], 1, last)]

-----------------------------------------------------------------------------
(* The priority-queue solver and path reconstruction.  ids is node_names of *)
(* the nodes' store, lists their Node.edges.                                *)

\* the body of `for edge in node.edges`
RECURSIVE RelaxEdges(_, _, _, _, _)
RelaxEdges(ids, es, node, st, j) ==
    IF j > Len(es) THEN st
    ELSE LET r == es[j]
             new_distance == st.distance[ids[node]] + 1
         IN IF r \in st.visited THEN RelaxEdges(ids, es, node, st, j + 1)
            ELSE IF st.distance[ids[r]] > new_distance
                 THEN RelaxEdges(ids, es, node,
                                 [st EXCEPT !.distance[ids[r]] = new_distance,
                                            !.pathMap[r] = node,
                                            !.priority_queue = HeapPush(@, <<new_distance, r>>)],
                                 j + 1)
                 ELSE RelaxEdges(ids, es, node, st, j + 1)

\* the body of `while priority_queue`
RECURSIVE DijkstraLoop(_, _, _)
DijkstraLoop(ids, lists, st) ==
    IF st.priority_queue = <<>> THEN st
    ELSE LET p == HeapPop(st.priority_queue)
             node == p.item[2]
             popped == [st EXCEPT !.priority_queue = p.heap, !.visited = @ \cup {node}]
         IN DijkstraLoop(ids, lists, RelaxEdges(ids, lists[node], node, popped, 1))

\* Graph.compute_dijkstra_using_heap(src): (distance, pathMap); distance is a
\* defaultdict answering sys.maxsize for an id never reached, pathMap maps a
\* node to its predecessor (0: no entry)
DijkstraHeap(ids, lists, src) ==
    LET st == DijkstraLoop(ids, lists,
                  [visited |-> {},
                   priority_queue |-> <<<<0, src>>>>,
                   distance |-> [x \in Range(ids) |-> IF x = ids[src] THEN 0 ELSE MaxSize],
                   pathMap |-> [n \in DOMAIN ids |-> 0]])
    IN [distance |-> st.distance, pathMap |-> st.pathMap]

Reverse(s) == [i \in 1..Len(s) |-> s[Len(s) + 1 - i]]

\* the loop of Graph.path, before route.reverse()
RECURSIVE PathWalk(_, _, _, _, _)
PathWalk(ids, previous, node_start, node_curr, route) ==
    LET r == Append(route, node_curr)
    IN IF previous[node_curr] = 0 THEN r
       ELSE IF ids[previous[node_curr]] = ids[node_start] THEN Append(r, node_start)
       ELSE PathWalk(ids, previous, node_start, previous[node_curr], r)

\* Graph.path
Path(ids, previous, node_start, node_end) ==
    Reverse(PathWalk(ids, previous, node_start, node_end, <<>>))

-----------------------------------------------------------------------------
(* The matrix solver *)

\* the selection loop: the first unsettled u of least dist[u] < sys.maxsize (0: None)
MinIdx(dist, sptSet) ==
    LET cand == {u \in DOMAIN dist : dist[u] < MaxSize /\ ~sptSet[u]}
    IN IF cand = {} THEN 0
       ELSE CHOOSE u \in cand : \A v \in cand : dist[u] < dist[v] \/ (dist[u] = dist[v] /\ u <= v)

\* one round of `for _ in range(len(self.nodes))`; indexing adj_mat with None raises TypeError
RECURSIVE SptRounds(_, _, _, _)
SptRounds(adj_mat, dist, sptSet, rounds) ==
    IF rounds = 0 THEN [raised |-> FALSE, dist |-> dist]
    ELSE LET min_idx == MinIdx(dist, sptSet)
         IN IF min_idx = 0 THEN [raised |-> TRUE, dist |-> dist]
            ELSE LET settled == [sptSet EXCEPT ![min_idx] = TRUE]
                     relaxed == [y \in DOMAIN dist |->
                                   IF /\ adj_mat[min_idx][y] # FloatInf
                                      /\ adj_mat[min_idx][y] > 0
                                      /\ ~settled[y]
                                      /\ dist[min_idx] # MaxSize
                                      /\ dist[y] > dist[min_idx] + adj_mat[min_idx][y]
                                   THEN dist[min_idx] + adj_mat[min_idx][y]
                                   ELSE dist[y]]
                 IN SptRounds(adj_mat, relaxed, settled, rounds - 1)

\* Graph.compute_dijikstra_using_spt(src, dst): TypeError or dist[dst_idx]
DijkstraSpt(g, src, dst) ==
    LET src_idx == IndexOf(g.node_names, NodeId(g, src))
        dst_idx == IndexOf(g.node_names, NodeId(g, dst))
        n == Len(g.nodes)
        r == SptRounds(AdjacencyMatrix(g),
                       [u \in 1..n |-> IF u = src_idx THEN 0 ELSE MaxSize],
                       [u \in 1..n |-> FALSE], n)
    IN [raised |-> r.raised, value |-> IF r.raised THEN 0 ELSE r.dist[dst_idx]]

-----------------------------------------------------------------------------
(* Topologies the queries are made on: built by add_node and add_edge *)

NodeOrder == <<"h1", "s1", "h2">>

\* str.startswith
StartsWith(x, prefix) == Len(x) >= Len(prefix) /\ SubSeq(x, 1, Len(prefix)) = prefix

TypeOf(n) == IF StartsWith(n, "h") THEN "host" ELSE "switch"

LinksOf(names) == {<<names[i], names[j]>> : i \in DOMAIN names, j \in DOMAIN names} \ {<<n, n>> : n \in Range(names)}

ForwardLinksOf(names) == {l \in LinksOf(names) : IndexOf(names, l[1]) < IndexOf(names, l[2])}

RECURSIVE AddNodes(_, _)
AddNodes(g, names) ==
    IF names = <<>> THEN g ELSE AddNodes(AddNodeGraph(g, Head(names), TypeOf(Head(names))), Tail(names))

RECURSIVE AddEdges(_, _)
AddEdges(g, links) ==
    IF links = <<>> THEN g ELSE AddEdges(AddEdgeGraph(g, Head(links)[1], Head(links)[2]), Tail(links))

TopologiesOn(names) ==
    {AddEdges(AddNodes(NewGraph, names), ls) : ls \in SeqsUpTo(ForwardLinksOf(names), MaxEdges)}

Topologies == TopologiesOn(NodeOrder)

-----------------------------------------------------------------------------
(* Solver queries *)

InitSolvers ==
    /\ graph \in Topologies
    /\ \E s \in DOMAIN graph.nodes, d \in DOMAIN graph.nodes :
          query = [src |-> s, dst |-> d, spt |-> <<>>, heap |-> <<>>]
    /\ outcome = Idle
    /\ calls = 0
    /\ copies = <<>>
    /\ yen = <<>>
    /\ memo = <<>>
    /\ units = <<>>

compute_dijikstra_using_spt ==
    /\ query.spt = <<>>
    /\ LET r == DijkstraSpt(graph, query.src, query.dst)
       IN /\ query' = [query EXCEPT !.spt = <<r>>]
          /\ outcome' = [op |-> "compute_dijikstra_using_spt", args |-> <<query.src, query.dst>>,
                         status |-> IF r.raised THEN "TypeError" ELSE "ok"]
    /\ graph' = GenerateMatrixGraph(graph)
    /\ UNCHANGED <<copies, calls, yen, memo, units>>

compute_dijkstra_using_heap ==
    /\ query.heap = <<>>
    /\ query' = [query EXCEPT !.heap = <<DijkstraHeap(graph.node_names, graph.node_edges, query.src)>>]
    /\ outcome' = [op |-> "compute_dijkstra_using_heap", args |-> <<query.src>>, status |-> "ok"]
    /\ UNCHANGED <<graph, copies, calls, yen, memo, units>>

NextSolvers ==
    \/ compute_dijikstra_using_spt
    \/ compute_dijkstra_using_heap

SpecSolvers == InitSolvers /\ [][NextSolvers]_vars

-----------------------------------------------------------------------------
(* Yen's engine, Graph.compute_yen_ksp.  A frame holds the locals of one    *)
(* call.  frame.on tells which Graph object the call was made on: 0 for     *)
(* `self`, u for the deep copy of unit u.  The Node objects the call is     *)
(* handed (node_start, node_end) and every node it then walks to are nodes  *)
(* of `self` in both callers of this file.                                  *)

World == [graph |-> graph, copies |-> copies]

GraphOn(w, on) == IF on = 0 THEN w.graph ELSE w.copies[on]

\* self.remove_edge(n, t) as called at line 308: n.edges is the list of the Node
\* object n; the observers told are those of the Graph the call is made on
YenRemoveEdge(w, on, n, t) ==
    LET cut == [w EXCEPT !.graph.node_edges = RemoveEdgeLists(w.graph.node_names, @, n, t)]
        note == <<"remove_edge", NodeId(w.graph, n), NodeId(w.graph, t)>>
    IN IF on = 0 THEN [cut EXCEPT !.graph.observed = Append(@, note)]
       ELSE [cut EXCEPT !.copies[on].observed = Append(@, note)]

\* self.add_edge(id1, id2) as called at line 322: the ids are resolved in the
\* Graph the call is made on
YenAddEdge(w, on, n1, n2) ==
    IF on = 0 THEN [w EXCEPT !.graph = AddEdgeGraph(@, n1, n2)]
    ELSE [w EXCEPT !.copies[on] = AddEdgeGraph(@, n1, n2)]

\* for path_k in A: the removals of one spur position (lines 304-310)
RECURSIVE RemoveLoop(_, _, _, _, _, _, _)
RemoveLoop(w, on, A, path_root, i, j, edges_removed) ==
    IF j > Len(A) THEN [world |-> w, edges_removed |-> edges_removed, raised |-> FALSE]
    ELSE LET curr_path == A[j].path
         IN IF Len(curr_path) > i /\ path_root = SubSeq(curr_path, 1, i + 1)
            THEN IF Len(curr_path) < i + 2
                 THEN [world |-> w, edges_removed |-> edges_removed, raised |-> TRUE]
                 ELSE RemoveLoop(YenRemoveEdge(w, on, curr_path[i + 1], curr_path[i + 2]),
                                 on, A, path_root, i, j + 1,
                                 Append(edges_removed, <<curr_path[i + 1], curr_path[i + 2]>>))
            ELSE RemoveLoop(w, on, A, path_root, i, j + 1, edges_removed)

\* the restoration loop without its add_edge calls
KeepRemoved(w, on, edges_removed) == w

\* for edge in edges_removed: self.add_edge(edge[0].id, edge[1].id)  (lines 321-322)
RECURSIVE RestoreLoop(_, _, _)
RestoreLoop(w, on, edges_removed) ==
    IF edges_removed = <<>> THEN w
    ELSE RestoreLoop(YenAddEdge(w, on, NodeId(w.graph, Head(edges_removed)[1]),
                                       NodeId(w.graph, Head(edges_removed)[2])),
                     on, Tail(edges_removed))

\* sorted(B, key=itemgetter('cost')): stable
RECURSIVE SortedByCost(_)
SortedByCost(B) ==
    IF B = <<>> THEN <<>>
    ELSE LET init == SortedByCost(SubSeq(B, 1, Len(B) - 1))
             x == B[Len(B)]
             n == Cardinality({j \in DOMAIN init : init[j].cost <= x.cost})
         IN SubSeq(init, 1, n) \o <<x>> \o SubSeq(init, n + 1, Len(init))

\* the head of `for k in range(1, max_k)` and of `for i in range(0, len(current_path) - 1)`
EnterIteration(f, k) ==
    IF k < f.max_k
    THEN IF Len(f.A[Len(f.A)].path) - 1 > 0
         THEN [f EXCEPT !.pc = "remove", !.k = k, !.i = 0]
         ELSE [f EXCEPT !.pc = "accept", !.k = k]
    ELSE [f EXCEPT !.pc = "done", !.k = k]

NewFrame(on, s, d, K) ==
    [pc |-> "call", on |-> on, node_start |-> s, node_end |-> d, max_k |-> K,
     distances |-> <<>>, A |-> <<>>, B |-> <<>>, k |-> 0, i |-> 0,
     edges_removed |-> <<>>, steps |-> 0, entry |-> <<>>]

\* lines 290-296: the plain shortest path opens A
YenCall(w, f) ==
    LET d == DijkstraHeap(w.graph.node_names, w.graph.node_edges, f.node_start)
        A == <<[cost |-> d.distance[NodeId(w.graph, f.node_end)],
                path |-> Path(w.graph.node_names, d.pathMap, f.node_start, f.node_end)]>>
        g == [f EXCEPT !.distances = d.distance, !.A = A, !.B = <<>>,
                       !.entry = GraphOn(w, f.on)]
    IN IF A[1].path = <<>> THEN [g EXCEPT !.pc = "done"] ELSE EnterIteration(g, 1)

\* lines 301-310: the spur node, the root path and the removals
YenRemove(w, f) ==
    LET current_path == f.A[Len(f.A)].path
        path_root == SubSeq(current_path, 1, f.i + 1)
        r == RemoveLoop(w, f.on, f.A, path_root, f.i, 1, <<>>)
    IN [world |-> r.world,
        frame |-> [f EXCEPT !.pc = IF r.raised THEN "IndexError" ELSE "search",
                            !.edges_removed = r.edges_removed]]

\* lines 312-319: the spur path and the candidate
YenSearch(w, f) ==
    LET current_path == f.A[Len(f.A)].path
        node_spur == current_path[f.i + 1]
        path_root == SubSeq(current_path, 1, f.i + 1)
        d == DijkstraHeap(w.graph.node_names, w.graph.node_edges, node_spur)
        path_total == SubSeq(path_root, 1, Len(path_root) - 1)
                          \o Path(w.graph.node_names, d.pathMap, node_spur, f.node_end)
        dist_total == f.distances[NodeId(w.graph, node_spur)] + d.distance[NodeId(w.graph, f.node_end)]
        potential_k == [cost |-> dist_total, path |-> path_total]
    IN [f EXCEPT !.pc = "restore",
                 !.B = IF potential_k \in Range(f.B) THEN f.B ELSE Append(f.B, potential_k)]

\* lines 321-322 and the step of `for i`
YenRestore(w, f) ==
    LET current_path == f.A[Len(f.A)].path
    IN [world |-> RestoreLoop(w, f.on, f.edges_removed),
        frame |-> IF f.i + 1 < Len(current_path) - 1
                  THEN [f EXCEPT !.pc = "remove", !.i = f.i + 1, !.steps = @ + 1]
                  ELSE [f EXCEPT !.pc = "accept", !.steps = @ + 1]]

\* lines 324-329 and the step of `for k`
YenAccept(f) ==
    IF Len(f.B) > 0
    THEN LET B == SortedByCost(f.B)
         IN EnterIteration([f EXCEPT !.A = Append(f.A, B[1]), !.B = Tail(B)], f.k + 1)
    ELSE [f EXCEPT !.pc = "done"]

-----------------------------------------------------------------------------
(* compute_yen_ksp called on `self` with its own nodes *)

InitYen ==
    /\ graph \in Topologies
    /\ \E s \in DOMAIN graph.nodes, d \in DOMAIN graph.nodes, K \in 1..MaxK :
          yen = <<NewFrame(0, s, d, K)>>
    /\ outcome = Idle
    /\ calls = 0
    /\ copies = <<>>
    /\ query = <<>>
    /\ memo = <<>>
    /\ units = <<>>

yen_call(r) ==
    /\ yen[r].pc = "call"
    /\ yen' = [yen EXCEPT ![r] = YenCall(World, yen[r])]
    /\ UNCHANGED <<graph, copies, outcome, calls, query, memo, units>>

yen_remove(r) ==
    /\ yen[r].pc = "remove"
    /\ LET n == YenRemove(World, yen[r])
       IN /\ yen' = [yen EXCEPT ![r] = n.frame]
          /\ graph' = n.world.graph
          /\ copies' = n.world.copies
    /\ UNCHANGED <<outcome, calls, query, memo, units>>

yen_search(r) ==
    /\ yen[r].pc = "search"
    /\ yen' = [yen EXCEPT ![r] = YenSearch(World, yen[r])]
    /\ UNCHANGED <<graph, copies, outcome, calls, query, memo, units>>

yen_restore(r) ==
    /\ yen[r].pc = "restore"
    /\ LET n == YenRestore(World, yen[r])
       IN /\ yen' = [yen EXCEPT ![r] = n.frame]
          /\ graph' = n.world.graph
          /\ copies' = n.world.copies
    /\ UNCHANGED <<outcome, calls, query, memo, units>>

yen_accept(r) ==
    /\ yen[r].pc = "accept"
    /\ yen' = [yen EXCEPT ![r] = YenAccept(yen[r])]
    /\ UNCHANGED <<graph, copies, outcome, calls, query, memo, units>>

NextYen ==
    \/ yen_call(1)
    \/ yen_remove(1)
    \/ yen_search(1)
    \/ yen_restore(1)
    \/ yen_accept(1)

SpecYen == InitYen /\ [][NextYen]_vars

-----------------------------------------------------------------------------
(* The parallel drivers.  Each processInput call is a unit; joblib runs the *)
(* units on a pool of threads, so their steps interleave in any order.      *)

\* Graph.get_all_hosts
GetAllHosts(g) ==
    LET RECURSIVE Pick(_)
        Pick(i) == IF i > Len(g.node_names) THEN <<>>
                   ELSE IF StartsWith(g.node_names[i], "h") THEN <<i>> \o Pick(i + 1)
                   ELSE Pick(i + 1)
    IN Pick(1)

\* f"{a.id}:{b.id}"
PathName(g, a, b) == NodeId(g, a) \o ":" \o NodeId(g, b)

\* dict.get(key) != None
Has(d, key) == key \in DOMAIN d

\* d[key] = value
Put(d, key, value) == [x \in DOMAIN d \cup {key} |-> IF x = key THEN value ELSE d[x]]

\* hosts[0:idx] + hosts[idx+1:len(hosts)]  (idx counted from 1 here)
RemainingHosts(hosts, idx) == SubSeq(hosts, 1, idx - 1) \o SubSeq(hosts, idx + 1, Len(hosts))

-----------------------------------------------------------------------------
(* compute_dijikstra_for_all_hosts *)

HostNames == {<<"h1", "s1", "h2">>, <<"h", "h:h1", "h1:h">>}

\* a unit of compute_dijikstra_for_all_hosts: processInput(idx); asked is not a
\* variable of the code: it records the pair each entry of t_res was made for
NewHostUnit(g, idx) ==
    [idx |-> idx, remaining_hosts |-> RemainingHosts(GetAllHosts(g), idx), j |-> 1,
     pc |-> IF Len(GetAllHosts(g)) > 1 THEN "get_forward" ELSE "return",
     path_name |-> "", t_res |-> <<>>, asked |-> <<>>, solved |-> <<>>]

InitHosts ==
    /\ \E names \in HostNames : graph \in TopologiesOn(names)
    /\ units = [idx \in DOMAIN GetAllHosts(graph) |-> NewHostUnit(graph, idx)]
    /\ memo = <<>>
    /\ outcome = Idle
    /\ calls = 0
    /\ copies = <<>>
    /\ yen = <<>>
    /\ query = <<>>

Host(u) == GetAllHosts(graph)[units[u].idx]

Rem(u) == units[u].remaining_hosts[units[u].j]

\* the step of `for rem in remaining_hosts`
NextRem(f) ==
    IF f.j < Len(f.remaining_hosts) THEN [f EXCEPT !.j = @ + 1, !.pc = "get_forward"]
    ELSE [f EXCEPT !.pc = "return"]

\* line 242
host_get_forward(u) ==
    /\ units[u].pc = "get_forward"
    /\ units' = [units EXCEPT ![u] =
                    IF Has(memo, PathName(graph, Host(u), Rem(u)))
                    THEN [@ EXCEPT !.path_name = PathName(graph, Host(u), Rem(u)), !.pc = "hit"]
                    ELSE [@ EXCEPT !.pc = "get_backward"]]
    /\ UNCHANGED <<graph, copies, outcome, calls, yen, query, memo>>

\* line 244
host_get_backward(u) ==
    /\ units[u].pc = "get_backward"
    /\ units' = [units EXCEPT ![u] =
                    IF Has(memo, PathName(graph, Rem(u), Host(u)))
                    THEN [@ EXCEPT !.path_name = PathName(graph, Rem(u), Host(u)), !.pc = "hit"]
                    ELSE [@ EXCEPT !.pc = "miss"]]
    /\ UNCHANGED <<graph, copies, outcome, calls, yen, query, memo>>

\* line 248
host_hit(u) ==
    /\ units[u].pc = "hit"
    /\ units' = [units EXCEPT ![u] =
                    NextRem([@ EXCEPT !.t_res = Append(@, memo[units[u].path_name]),
                                      !.asked = Append(@, <<Host(u), Rem(u)>>)])]
    /\ UNCHANGED <<graph, copies, outcome, calls, yen, query, memo>>

\* the distance line 252 stores
SolvedDistance(g, a, b) ==
    DijkstraHeap(g.node_names, g.node_edges, a).distance[NodeId(g, b)]

\* lines 251-252
host_miss(u) ==
    /\ units[u].pc = "miss"
    /\ memo' = Put(memo, PathName(graph, Host(u), Rem(u)), SolvedDistance(graph, Host(u), Rem(u)))
    /\ units' = [units EXCEPT ![u] =
                    [@ EXCEPT !.path_name = PathName(graph, Host(u), Rem(u)),
                              !.solved = Append(@, <<Host(u), Rem(u)>>),
                              !.pc = "read_back"]]
    /\ UNCHANGED <<graph, copies, outcome, calls, yen, query>>

\* line 253
host_read_back(u) ==
    /\ units[u].pc = "read_back"
    /\ units' = [units EXCEPT ![u] =
                    NextRem([@ EXCEPT !.t_res = Append(@, memo[units[u].path_name]),
                                      !.asked = Append(@, <<Host(u), Rem(u)>>)])]
    /\ UNCHANGED <<graph, copies, outcome, calls, yen, query, memo>>

\* [i for sublist in results for i in sublist]
RECURSIVE Flatten(_, _)
Flatten(frames, field) ==
    IF frames = <<>> THEN <<>>
    ELSE (IF field = "t_res" THEN Head(frames).t_res ELSE Head(frames).asked)
             \o Flatten(Tail(frames), field)

\* lines 260-262: the units are joined and their lists flattened
all_hosts_return ==
    /\ outcome.op = "none"
    /\ \A u \in DOMAIN units : units[u].pc = "return"
    /\ outcome' = [op |-> "compute_dijikstra_for_all_hosts", args |-> <<>>, status |-> "ok",
                   value |-> Flatten(units, "t_res"), asked |-> Flatten(units, "asked")]
    /\ UNCHANGED <<graph, copies, calls, yen, query, memo, units>>

NextHosts ==
    \/ \E u \in DOMAIN units : host_get_forward(u)
    \/ \E u \in DOMAIN units : host_get_backward(u)
    \/ \E u \in DOMAIN units : host_hit(u)
    \/ \E u \in DOMAIN units : host_miss(u)
    \/ \E u \in DOMAIN units : host_read_back(u)
    \/ all_hosts_return

SpecHosts == InitHosts /\ [][NextHosts]_vars


-----------------------------------------------------------------------------
(* get_ecmp_paths *)

\* the loop comparing each entry with the one ranked just before it
RECURSIVE EcmpLoopAgainstPrevious(_, _, _, _)
EcmpLoopAgainstPrevious(all_paths, j, found, required_path_count) ==
    IF j > Len(all_paths) THEN found
    ELSE LET kept == IF Len(all_paths[j].path) = Len(all_paths[j - 1].path)
                     THEN Append(found, all_paths[j]) ELSE found
         IN IF Len(kept) = required_path_count THEN kept
            ELSE EcmpLoopAgainstPrevious(all_paths, j + 1, kept, required_path_count)

\* the loop `for p in all_paths[1:]` (j counts from 1, so it starts at 2)
RECURSIVE EcmpLoop(_, _, _, _)
EcmpLoop(all_paths, j, found, required_path_count) ==
    IF j > Len(all_paths) THEN found
    ELSE LET kept == IF Len(all_paths[j].path) = Len(all_paths[1].path)
                     THEN Append(found, all_paths[j]) ELSE found
         IN IF Len(kept) = required_path_count THEN kept
            ELSE EcmpLoop(all_paths, j + 1, kept, required_path_count)

\* Graph.get_ecmp_paths: all_paths[0] raises IndexError for an empty list
\* under the key; only KeyError is caught
GetEcmpRaises(g, host_pair, computed_paths) ==
    LET path_name == PathName(g, host_pair[1], host_pair[2])
    IN Has(computed_paths, path_name) /\ computed_paths[path_name] = <<>>

\* Graph.get_ecmp_paths: [] on KeyError
GetEcmpPaths(g, host_pair, computed_paths, required_path_count) ==
    LET path_name == PathName(g, host_pair[1], host_pair[2])
    IN IF ~Has(computed_paths, path_name) THEN <<>>
       ELSE IF GetEcmpRaises(g, host_pair, computed_paths) THEN <<>>
       ELSE EcmpLoop(computed_paths[path_name], 2, <<>>, required_path_count)

\* calculate_centrality counting a switch once for an entry
RECURSIVE CentralityOncePerEntry(_, _, _, _)
CentralityOncePerEntry(g, path, i, c) ==
    IF i > Len(path) THEN c
    ELSE LET id == NodeId(g, path[i])
             seen == \E k \in 1..(i - 1) : NodeId(g, path[k]) = id
         IN CentralityOncePerEntry(g, path, i + 1,
                IF StartsWith(id, "s") /\ ~seen
                THEN Put(c, id, (IF Has(c, id) THEN c[id] ELSE 0) + 1) ELSE c)

\* lines 427-429: the loop over the nodes of one entry's path
RECURSIVE CentralityOfPath(_, _, _, _)
CentralityOfPath(g, path, i, c) ==
    IF i > Len(path) THEN c
    ELSE LET id == NodeId(g, path[i])
         IN CentralityOfPath(g, path, i + 1,
                IF StartsWith(id, "s")
                THEN Put(c, id, (IF Has(c, id) THEN c[id] ELSE 0) + 1) ELSE c)

\* line 426: the loop over the entries of one key's list
RECURSIVE CentralityOfList(_, _, _, _)
CentralityOfList(g, cp, e, c) ==
    IF e > Len(cp) THEN c
    ELSE CentralityOfList(g, cp, e + 1, CentralityOfPath(g, cp[e].path, 1, c))

\* line 425: the loop over computed_paths.items()
RECURSIVE CentralityOfItems(_, _, _, _)
CentralityOfItems(g, computed_paths, keys, c) ==
    IF keys = {} THEN c
    ELSE LET key == CHOOSE k \in keys : TRUE
         IN CentralityOfItems(g, computed_paths, keys \ {key},
                              CentralityOfList(g, computed_paths[key], 1, c))

\* Graph.calculate_centrality
CalculateCentrality(g, computed_paths) ==
    CentralityOfItems(g, computed_paths, DOMAIN computed_paths, <<>>)

-----------------------------------------------------------------------------
(* get_ecmp_paths and calculate_centrality called on computed path lists *)

MaxRanked == 3
MaxCount == 2

PostNames == <<"h1", "s1", "s2", "h2">>

PostKeys == {"h1:h2", "h2:h1"}

\* node sequences as compute_yen_ksp returns them between h1 and h2, the last
\* one with a switch visited twice
PostPaths == {<<1, 2, 4>>, <<1, 3, 4>>, <<1, 2, 3, 4>>, <<1, 2, 3, 2, 4>>}

PostEntries == {[cost |-> Len(p) - 1, path |-> p] : p \in PostPaths}

PostDicts ==
    {d \in UNION {[S -> SeqsUpTo(PostEntries, MaxRanked)] : S \in SUBSET PostKeys} :
        \A k \in DOMAIN d : \A l \in DOMAIN d : k # l => Len(d[k]) + Len(d[l]) <= MaxRanked}

InitPost ==
    /\ graph = AddNodes(NewGraph, PostNames)
    /\ \E host_pair \in {<<1, 4>>, <<4, 1>>}, computed_paths \in PostDicts,
          required_path_count \in 0..MaxCount :
          query = [host_pair |-> host_pair, computed_paths |-> computed_paths,
                   required_path_count |-> required_path_count]
    /\ outcome = Idle
    /\ calls = 0
    /\ copies = <<>>
    /\ yen = <<>>
    /\ memo = <<>>
    /\ units = <<>>

get_ecmp_paths ==
    /\ outcome.op = "none"
    /\ outcome' = [op |-> "get_ecmp_paths", args |-> <<>>,
                   status |-> IF GetEcmpRaises(graph, query.host_pair, query.computed_paths)
                              THEN "IndexError" ELSE "ok",
                   value |-> GetEcmpPaths(graph, query.host_pair, query.computed_paths,
                                          query.required_path_count)]
    /\ UNCHANGED <<graph, copies, calls, yen, query, memo, units>>

calculate_centrality ==
    /\ outcome.op = "none"
    /\ outcome' = [op |-> "calculate_centrality", args |-> <<>>, status |-> "ok",
                   value |-> CalculateCentrality(graph, query.computed_paths)]
    /\ UNCHANGED <<graph, copies, calls, yen, query, memo, units>>

NextPost ==
    \/ get_ecmp_paths
    \/ calculate_centrality

SpecPost == InitPost /\ [][NextPost]_vars

-----------------------------------------------------------------------------
(* compute_yen_for_server_permutation_pairs *)

\* the pipeline asks compute_yen_ksp for 64 paths (line 367); the model asks
\* for PermK, which is enough for removals and restorations to happen
PermK == 3

EightShortest == 8
EightEcmp == 8
SixtyFourEcmp == 64

\* random.shuffle: any arrangement of the hosts
Shuffles(hosts) ==
    {p \in [DOMAIN hosts -> Range(hosts)] : \A i \in DOMAIN p, j \in DOMAIN p : i # j => p[i] # p[j]}

FirstN(s, n) == SubSeq(s, 1, IF Len(s) < n THEN Len(s) ELSE n)

InitPerm ==
    /\ graph \in Topologies
    /\ \E shuffled_hosts \in Shuffles(GetAllHosts(graph)) :
          /\ units = [u \in DOMAIN GetAllHosts(graph) |->
                         [h |-> <<GetAllHosts(graph)[u], shuffled_hosts[u]>>, pc |-> "queued", result |-> <<>>]]
          /\ yen = [u \in DOMAIN GetAllHosts(graph) |->
                         [NewFrame(u, GetAllHosts(graph)[u], shuffled_hosts[u], PermK) EXCEPT !.pc = "queued"]]
    /\ copies = <<>>
    /\ outcome = Idle
    /\ calls = 0
    /\ query = <<>>
    /\ memo = <<>>

\* line 380: the generator yields delayed(processInput)(i, copy.deepcopy(self))
\* for the next pair; the copy is taken when the pool asks for that unit
perm_dispatch(u) ==
    /\ units[u].pc = "queued"
    /\ Len(copies) = u - 1
    /\ copies' = Append(copies, graph)
    /\ units' = [units EXCEPT ![u].pc = "running"]
    /\ yen' = [yen EXCEPT ![u].pc = "call"]
    /\ UNCHANGED <<graph, outcome, calls, query, memo>>

\* lines 369-375, once graph.compute_yen_ksp(h[0], h[1], 64) has returned
perm_finish(u) ==
    /\ units[u].pc = "running"
    /\ yen[u].pc = "done"
    /\ LET h == units[u].h
           path_name == PathName(graph, h[1], h[2])
           computed_paths == Put(<<>>, path_name, yen[u].A)
       IN units' = [units EXCEPT ![u] =
                       [@ EXCEPT !.pc = "done",
                                 !.result = <<path_name, computed_paths,
                                              FirstN(yen[u].A, EightShortest),
                                              GetEcmpPaths(copies[u], h, computed_paths, EightEcmp),
                                              GetEcmpPaths(copies[u], h, computed_paths, SixtyFourEcmp)>>]]
    /\ UNCHANGED <<graph, copies, outcome, calls, yen, query, memo>>

\* ChainMap(*resp): for a key several units return, the first unit's value
Merged(field) ==
    LET keys == {units[u].result[1] : u \in DOMAIN units}
        first(key) == CHOOSE u \in DOMAIN units :
                          /\ units[u].result[1] = key
                          /\ \A v \in DOMAIN units : units[v].result[1] = key => u <= v
    IN [key \in keys |-> units[first(key)].result[field]]

\* lines 382-388: the units are joined and the four mappings returned
perm_return ==
    /\ outcome.op = "none"
    /\ \A u \in DOMAIN units : units[u].pc = "done"
    /\ outcome' = [op |-> "compute_yen_for_server_permutation_pairs", args |-> <<>>, status |-> "ok",
                   value |-> <<Merged(2), Merged(3), Merged(4), Merged(5)>>]
    /\ UNCHANGED <<graph, copies, calls, yen, query, memo, units>>

NextPerm ==
    \/ \E u \in DOMAIN units : perm_dispatch(u)
    \/ \E u \in DOMAIN units : yen_call(u)
    \/ \E u \in DOMAIN units : yen_remove(u)
    \/ \E u \in DOMAIN units : yen_search(u)
    \/ \E u \in DOMAIN units : yen_restore(u)
    \/ \E u \in DOMAIN units : yen_accept(u)
    \/ \E u \in DOMAIN units : perm_finish(u)
    \/ perm_return

SpecPerm == InitPerm /\ [][NextPerm]_vars


-----------------------------------------------------------------------------
(* Notions the properties are stated with *)

\* the nodes reachable from the set S along Node.edges
RECURSIVE ReachFrom(_, _)
ReachFrom(lists, S) ==
    LET T == S \cup UNION {Range(lists[n]) : n \in S}
    IN IF T = S THEN S ELSE ReachFrom(lists, T)

Reachable(g, a, b) == b \in ReachFrom(g.node_edges, {a})

\* the number of edges of a shortest walk from the set S (d edges away from a) to b
RECURSIVE HopsFrom(_, _, _, _)
HopsFrom(lists, S, b, d) ==
    LET T == S \cup UNION {Range(lists[n]) : n \in S}
    IN IF b \in S THEN d ELSE IF T = S THEN MaxSize ELSE HopsFrom(lists, T, b, d + 1)

TrueDistance(g, a, b) == HopsFrom(g.node_edges, {a}, b, 0)

AllHostsReturned == outcome.op = "compute_dijikstra_for_all_hosts"

\* a store call has just been made
Called(op) == outcome'.op = op /\ calls' = calls + 1

\* the NxN matrix of a topology: 1 where i has an edge to j (Node.is_neighbor
\* also answers yes for j = i as soon as i has an edge), infinity elsewhere
TopologyMatrix(g) ==
    [i \in DOMAIN g.nodes |-> [j \in DOMAIN g.nodes |->
        IF j \in Range(g.node_edges[i]) \/ (i = j /\ g.node_edges[i] # <<>>) THEN 1 ELSE FloatInf]]

\* s with its i-th element taken out
Without(s, i) == SubSeq(s, 1, i - 1) \o SubSeq(s, i + 1, Len(s))

\* the list get_ecmp_paths was asked about, when the pair's key is present
EcmpKey == PathName(graph, query.host_pair[1], query.host_pair[2])

EcmpAnswered == outcome.op = "get_ecmp_paths" /\ outcome.status = "ok"

\* the entries after the first whose node sequence is as long as the first's
Qualifying(all_paths) ==
    LET same(p) == Len(p.path) = Len(all_paths[1].path)
    IN SelectSeq(Tail(all_paths), same)

\* the sum of f over the finite set S
RECURSIVE SumOver(_, _)
SumOver(f, S) ==
    IF S = {} THEN 0
    ELSE LET x == CHOOSE y \in S : TRUE IN f[x] + SumOver(f, S \ {x})

\* the entries of a computed-paths collection, as <<key, rank>>
EntriesOf(computed_paths) ==
    UNION {{<<k, e>> : e \in DOMAIN computed_paths[k]} : k \in DOMAIN computed_paths}

\* the ids along the node sequence of entry x
IdsAlong(computed_paths, x) ==
    [i \in DOMAIN computed_paths[x[1]][x[2]].path |-> NodeId(graph, computed_paths[x[1]][x[2]].path[i])]

\* how often id s occurs in all node sequences together
Occurrences(computed_paths, s) ==
    SumOver([x \in EntriesOf(computed_paths) |->
                Cardinality({i \in DOMAIN IdsAlong(computed_paths, x) : IdsAlong(computed_paths, x)[i] = s})],
            EntriesOf(computed_paths))

\* how many entries have id s in their node sequence
EntriesThrough(computed_paths, s) ==
    Cardinality({x \in EntriesOf(computed_paths) : s \in Range(IdsAlong(computed_paths, x))})

SwitchIds == {n \in Range(graph.node_names) : StartsWith(n, "s")}

NoRepeats(s) == \A i \in DOMAIN s, j \in DOMAIN s : i # j => s[i] # s[j]

Returned(r) == r \in DOMAIN yen /\ yen[r].pc = "done"

SpurStepDone(r) == r \in DOMAIN yen /\ yen[r].steps > 0 /\ yen[r].pc \in {"remove", "accept", "done"}

-----------------------------------------------------------------------------
(* Properties *)

\* C1: every path of the list compute_yen_ksp returns is loopless: no node
\* occurs twice in an entry's node sequence.
C1_ReturnedPathsLoopless ==
    Returned(1) => \A e \in DOMAIN yen[1].A : NoRepeats(yen[1].A[e].path)

\* C2: in compute_yen_for_server_permutation_pairs a unit's Yen run changes
\* only its own deep copy: no step changes the incident edges of the nodes of
\* the original store, a copy changes only in a step of the unit that owns it,
\* and the original store is the same when the pipeline returns.
C2_UnitsTouchOnlyOwnCopy ==
    [][/\ graph'.node_edges = graph.node_edges
       /\ \A u \in DOMAIN copies : copies'[u] # copies[u] => yen'[u] # yen[u]]_vars

\* C3: when dst is reachable from src, the matrix solver and the
\* priority-queue solver report the same distance for (src, dst).
C3_SolversAgree ==
    (query.spt # <<>> /\ query.heap # <<>> /\ Reachable(graph, query.src, query.dst))
        => /\ ~query.spt[1].raised
           /\ query.spt[1].value = query.heap[1].distance[NodeId(graph, query.dst)]

\* C4: the entries of the list compute_yen_ksp returns have pairwise distinct
\* node sequences.
C4_ReturnedPathsDistinct ==
    Returned(1) => \A a \in DOMAIN yen[1].A, b \in DOMAIN yen[1].A :
                       a # b => yen[1].A[a].path # yen[1].A[b].path

\* C5: the list compute_yen_ksp returns is in non-decreasing cost order.
C5_ReturnedCostsAscend ==
    Returned(1) => \A a \in DOMAIN yen[1].A :
                       a > 1 => yen[1].A[a].cost >= yen[1].A[a - 1].cost

\* C6: every entry compute_yen_ksp returns reports as its cost the number of
\* edges of its path (node count minus one).
C6_CostIsEdgeCount ==
    Returned(1) => \A e \in DOMAIN yen[1].A :
                       Len(yen[1].A[e].path) - 1 = yen[1].A[e].cost

C8_UnreachableIsSentinel ==
    (query.spt # <<>> /\ query.heap # <<>> /\ ~Reachable(graph, query.src, query.dst))
        => /\ ~query.spt[1].raised
           /\ query.spt[1].value = MaxSize
           /\ query.heap[1].distance[NodeId(graph, query.dst)] = MaxSize

\* C9: under every interleaving of the units, the flat list
\* compute_dijikstra_for_all_hosts returns has an entry for every unordered
\* pair of distinct hosts, and every entry is the true shortest distance
\* between the two hosts it was produced for.
C9_AllHostsCompleteAndCorrect ==
    AllHostsReturned =>
        /\ \A a \in Range(GetAllHosts(graph)), b \in Range(GetAllHosts(graph)) :
              a # b => \E k \in DOMAIN outcome.asked : outcome.asked[k] \in {<<a, b>>, <<b, a>>}
        /\ Len(outcome.value) = Len(outcome.asked)
        /\ \A k \in DOMAIN outcome.value :
              outcome.value[k] = TrueDistance(graph, outcome.asked[k][1], outcome.asked[k][2])

\* C10: add_node with an id already in the store raises the duplicate-node
\* error and leaves the store as it was; so the ids of the store stay pairwise
\* distinct and nodes[i].id = node_names[i] for every i.
C10_DuplicateNodeRejected ==
    /\ [](/\ Len(graph.nodes) = Len(graph.node_names)
          /\ NoRepeats(graph.node_names)
          /\ \A i \in DOMAIN graph.nodes : graph.nodes[i].id = graph.node_names[i])
    /\ [][(outcome'.op = "add_node" /\ calls' = calls + 1
              /\ outcome'.args[1] \in Range(graph.node_names))
            => (outcome'.status = "DuplicateNodeNameException" /\ graph' = graph)]_vars

C10_Witness ==
    /\ outcome.op = "add_node"
    /\ outcome.status = "DuplicateNodeNameException"
    /\ Len(graph.nodes) >= 2
    /\ Len(graph.edges) >= 1

\* C11: add_edge(id_a, id_b) with an id that is not in the store fails with the
\* unknown-id error (ValueError from list.index), and then no edge is created
\* on either endpoint, the global edge list is unchanged and no observer is told.
C11_UnknownEndpointRejected ==
    [][(Called("add_edge") /\ (outcome'.args[1] \notin Range(graph.node_names)
                                 \/ outcome'.args[2] \notin Range(graph.node_names)))
         => (outcome'.status = "ValueError" /\ graph' = graph)]_vars

C11_Witness ==
    /\ outcome.op = "add_edge"
    /\ outcome.status = "ValueError"
    /\ outcome.args[1] \in Range(graph.node_names)
    /\ outcome.args[2] \notin Range(graph.node_names)
    /\ Len(graph.edges) >= 1

\* C18: generate_adjancency_matrix builds the matrix on the first call only:
\* the first call returns the matrix of the topology as it is then, and from
\* then on no call of the store changes the cached matrix and every later
\* generate_adjancency_matrix returns it, whatever was mutated in between.
C18_MatrixBuiltOnce ==
    [][/\ graph.adjacency_matrix.built => graph'.adjacency_matrix = graph.adjacency_matrix
       /\ Called("generate_adjancency_matrix") =>
             /\ graph'.adjacency_matrix.built
             /\ outcome'.value = graph'.adjacency_matrix.m
             /\ ~graph.adjacency_matrix.built => outcome'.value = TopologyMatrix(graph)
             /\ graph'.node_edges = graph.node_edges /\ graph'.nodes = graph.nodes]_vars

C18_Witness ==
    /\ outcome.op = "generate_adjancency_matrix"
    /\ graph.adjacency_matrix.built
    /\ outcome.value = graph.adjacency_matrix.m
    /\ outcome.value # TopologyMatrix(graph)

\* C19: remove_edge(node_a, node_b) takes the first edge to node_b out of
\* node_a's incident edges and changes nothing else: the lists of the other
\* nodes (node_b's too), the global edge list, the node list and the cached
\* matrix stay; with no edge from node_a to node_b the topology is unchanged.
C19_RemoveEdgeFrame ==
    [][Called("remove_edge") =>
          LET n == outcome'.args[1]
              t == outcome'.args[2]
          IN /\ graph'.nodes = graph.nodes
             /\ graph'.node_names = graph.node_names
             /\ graph'.edges = graph.edges
             /\ graph'.adjacency_matrix = graph.adjacency_matrix
             /\ \A m \in DOMAIN graph.node_edges : m # n => graph'.node_edges[m] = graph.node_edges[m]
             /\ IF t \in Range(graph.node_edges[n])
                THEN \E i \in DOMAIN graph.node_edges[n] :
                        /\ graph.node_edges[n][i] = t
                        /\ graph'.node_edges[n] = Without(graph.node_edges[n], i)
                ELSE graph'.node_edges = graph.node_edges]_vars

C19_Witness ==
    /\ outcome.op = "remove_edge"
    /\ outcome.args[1] # outcome.args[2]
    /\ outcome.args[2] \notin Range(graph.node_edges[outcome.args[1]])
    /\ outcome.args[1] \in Range(graph.node_edges[outcome.args[2]])
    /\ Len(graph.edges) >= 1

\* C12: for every ranked list and every requested count K >= 0, get_ecmp_paths
\* returns at most K paths.
C12_EcmpCountWithinK ==
    EcmpAnswered => Len(outcome.value) <= query.required_path_count

\* C13: for a present key, what get_ecmp_paths returns is a prefix of the
\* entries ranked after the first whose node sequence is as long as the
\* first's: entries from index 1 on, in rank order, none skipped before a
\* returned one. For an absent key it returns the empty list without an error.
C13_EcmpTakesQualifyingInOrder ==
    /\ EcmpAnswered /\ Has(query.computed_paths, EcmpKey) =>
          \E n \in 0..Len(Qualifying(query.computed_paths[EcmpKey])) :
              outcome.value = SubSeq(Qualifying(query.computed_paths[EcmpKey]), 1, n)
    /\ outcome.op = "get_ecmp_paths" /\ ~Has(query.computed_paths, EcmpKey) =>
          outcome.status = "ok" /\ outcome.value = <<>>

C13_Witness ==
    /\ EcmpAnswered
    /\ Has(query.computed_paths, EcmpKey)
    /\ Len(query.computed_paths[EcmpKey]) = 3
    /\ Len(query.computed_paths[EcmpKey][2].path) # Len(query.computed_paths[EcmpKey][1].path)
    /\ outcome.value = <<query.computed_paths[EcmpKey][3]>>

\* C14 as stated: calculate_centrality maps each switch id to the number of
\* entries whose node sequence contains it, an entry counting once however
\* often the switch occurs in it; no host id is a key.
C14_CountsEntriesOnce ==
    outcome.op = "calculate_centrality" =>
        /\ DOMAIN outcome.value \subseteq SwitchIds
        /\ \A s \in SwitchIds :
              IF s \in DOMAIN outcome.value
              THEN outcome.value[s] = EntriesThrough(query.computed_paths, s)
              ELSE EntriesThrough(query.computed_paths, s) = 0

\* C14 amended: calculate_centrality maps each switch id that occurs in some
\* entry to the number of its occurrences in all node sequences together (an
\* entry where it occurs twice counts twice); a switch that occurs nowhere is
\* not a key, and no host id is a key.
C14_CountsOccurrences ==
    outcome.op = "calculate_centrality" =>
        /\ DOMAIN outcome.value = {s \in SwitchIds : Occurrences(query.computed_paths, s) > 0}
        /\ \A s \in DOMAIN outcome.value :
              outcome.value[s] = Occurrences(query.computed_paths, s)

C14_Witness ==
    /\ outcome.op = "calculate_centrality"
    /\ DOMAIN query.computed_paths = PostKeys
    /\ "s1" \in DOMAIN outcome.value
    /\ outcome.value["s1"] > EntriesThrough(query.computed_paths, "s1")
    /\ "s2" \in DOMAIN outcome.value

\* C15: when the destination is not reachable from the source, compute_yen_ksp
\* returns exactly one entry, and the path of that entry is empty.
C15_UnreachableGivesEmptyPath ==
    (Returned(1) /\ ~Reachable(yen[1].entry, yen[1].node_start, yen[1].node_end)) =>
        (Len(yen[1].A) = 1 /\ yen[1].A[1].path = <<>>)

\* C16: for a reachable destination every entry compute_yen_ksp returns is a
\* path of the topology it was called on: its node sequence starts at the
\* source, ends at the destination and each node has an edge to the next one
\* (a spur search that finds nothing adds no entry).
C16_ReturnedEntriesAreRealPaths ==
    (Returned(1) /\ Reachable(yen[1].entry, yen[1].node_start, yen[1].node_end)) =>
        \A e \in DOMAIN yen[1].A :
            LET path == yen[1].A[e].path
            IN /\ path # <<>>
               /\ path[1] = yen[1].node_start
               /\ path[Len(path)] = yen[1].node_end
               /\ \A i \in 1..(Len(path) - 1) : path[i + 1] \in Range(yen[1].entry.node_edges[path[i]])

\* C17: in compute_dijikstra_for_all_hosts the solver is run at most once for
\* an unordered pair of hosts, whatever the interleaving of the units: no two
\* solver runs, of one unit or of two, are for the same two hosts.
C17_SolverOncePerPair ==
    \A u \in DOMAIN units, v \in DOMAIN units :
        \A k \in DOMAIN units[u].solved, l \in DOMAIN units[v].solved :
            <<u, k>> # <<v, l>> => Range(units[u].solved[k]) # Range(units[v].solved[l])

\* C20: compute_yen_ksp called on a store with that store's nodes leaves the
\* topology as it found it: when it returns, every node has as many edges to
\* every other node as before the call, and the global edge list is as long
\* as before.
C20_YenLeavesTopologyAsFound ==
    Returned(1) =>
        /\ \A a \in DOMAIN graph.node_edges, b \in DOMAIN graph.node_edges :
              Cardinality({i \in DOMAIN graph.node_edges[a] : graph.node_edges[a][i] = b})
                = Cardinality({i \in DOMAIN yen[1].entry.node_edges[a] : yen[1].entry.node_edges[a][i] = b})
        /\ Len(graph.edges) = Len(yen[1].entry.edges)

====
